---- MODULE Spec2Model ----
(***************************************************************************)
(* A model of vm_tr.py, the VM-to-Hack-assembly translator.                *)
(*                                                                         *)
(* A VM line is the list of words the Parser returns.  Words are modelled  *)
(* as tokens: the decimal string of an integer, or a name (a function name *)
(* 'pre.suf', a label, or the synthesized label 'RETURN_<n>').  The output *)
(* string Translator._asm_code is modelled as the sequence of the pieces   *)
(* appended to it: a comment line, or a code pattern with its placeholders *)
(* var_1, var_2, var_3 filled in.                                          *)
(***************************************************************************)
EXTENDS Integers, Sequences, FiniteSets, TLC

VARIABLES
    parsed_vm,          \* main: the list of parsed lines
    has_init,           \* main: vm_parser's flag, function Sys.init was seen
    curr_class,         \* main: the class name handed to each Translator
    idx,                \* main: number of lines of parsed_vm translated
    asm_code,           \* Translator._asm_code
    lt_eq_gt_counter,   \* Translator._lt_eq_gt_counter
    error,              \* the exception that ended the run, "" if none
    pc,                 \* position of main: "main", "loop", "done", "failed";
                        \* then of the machine running the output: "halt"
    ram,                \* the target machine's data memory
    boot_ram,           \* the data memory the machine was started with
    ip                  \* the target machine's position in asm_code

vars == <<parsed_vm, has_init, curr_class, idx, asm_code, lt_eq_gt_counter,
          error, pc, ram, boot_ram, ip>>

---------------------------------------------------------------------------
(* Words of a line *)

\* the string str(k) of an integer k
IntTok(k) == [isnum |-> TRUE, n |-> k, pre |-> "", suf |-> ""]

\* a name 'pre.suf' (or 'pre' when suf is empty), an operator symbol, a class name
Name(p, s) == [isnum |-> FALSE, n |-> 0, pre |-> p, suf |-> s]

\* the string f'RETURN_{k}'
RETURN_(k) == [isnum |-> FALSE, n |-> k, pre |-> "RETURN_", suf |-> ""]

\* Python's None in a placeholder tuple; also the missing words of a short line
NoneTok == [isnum |-> FALSE, n |-> 0, pre |-> "None", suf |-> ""]

\* ['add'], ['return']
Op(c) == [cmd |-> c, seg |-> "", name |-> NoneTok, i |-> NoneTok]

\* ['push', 'local', '2']
Mem(c, s, t) == [cmd |-> c, seg |-> s, name |-> NoneTok, i |-> t]

\* ['label', 'L'], ['goto', 'L']
Ctl(c, nm) == [cmd |-> c, seg |-> "", name |-> nm, i |-> NoneTok]

\* ['function', 'Foo.bar', '2'], ['call', 'Foo.bar', '2']
Proc(c, nm, t) == [cmd |-> c, seg |-> "", name |-> nm, i |-> t]

\* Translator.__init__(line_lst, class_name='', idx=0)
Translator(line_lst, class_name, i) ==
    [line |-> line_lst, class_name |-> class_name, cmd |-> line_lst.cmd, idx |-> i]

\* the state shared by all Translator instances (class attributes), with the
\* exception that is propagating, if any
Shared(asm, counter, err) == [asm_code |-> asm, lt_eq_gt_counter |-> counter, error |-> err]

---------------------------------------------------------------------------
(* The pattern files (patterns/*.txt), which the repository keeps outside *)
(* the translator's source: their names are what create_mappings loads.   *)

PatternNames ==
    {"_push constant", "_push static", "_push temp", "_push pointer", "_push loc",
     "_pop static", "_pop temp", "_pop pointer", "_pop loc",
     "_label", "_goto", "_if-goto",
     "_add_sub_or_and", "_neg_not", "_lt_eq_gt", "_function", "_call", "_return"}

\* a pattern after raw_code.format(...): the piece appended to _asm_code
Code(pattern_name, v1, v2, v3) ==
    [pat |-> pattern_name, var_1 |-> v1, var_2 |-> v2, var_3 |-> v3]

\* the comment line '// ' + ' '.join(line) + '\n'
Comment(line) == [pat |-> "//", line |-> line]

---------------------------------------------------------------------------
(* Translator *)

\* mutant of _make_comm: the comment is put in front of the output
_make_comm_in_front(self, st) ==
    [st EXCEPT !.asm_code = <<Comment(self.line)>> \o @]

_make_comm(self, st) ==
    [st EXCEPT !.asm_code = Append(@, Comment(self.line))]

\* translate, lines 100-108: the name of the pattern of the current command
pattern_name(self) ==
    IF self.cmd \in {"pop", "push"}
    THEN IF self.line.seg \notin {"local", "argument", "this", "that"}
         THEN "_" \o self.cmd \o " " \o self.line.seg
         ELSE "_" \o self.cmd \o " loc"
    ELSE IF self.cmd \in {"label", "goto", "if-goto"}
    THEN "_" \o self.cmd
    ELSE CASE self.cmd \in {"add", "sub", "or", "and"} -> "_add_sub_or_and"
           [] self.cmd \in {"neg", "not"}              -> "_neg_not"
           [] self.cmd \in {"lt", "eq", "gt"}          -> "_lt_eq_gt"
           [] OTHER                                    -> "_" \o self.cmd

\* loc_dict
loc_dict(mem_segm) ==
    CASE mem_segm = "local"    -> IntTok(1)
      [] mem_segm = "argument" -> IntTok(2)
      [] mem_segm = "this"     -> IntTok(3)
      [] mem_segm = "that"     -> IntTok(4)
      [] OTHER                 -> NoneTok

\* pointer_dict
pointer_dict(is_neg) == IF is_neg THEN Name("-", "") ELSE Name("+", "")

\* the value of self._pop_push_expr that _pop_push_helper computes
_pop_push_helper(self) ==
    LET mem_segm == self.line.seg
        i0       == self.line.i
        \* int(i) < 0, False when i is not the string of an integer
        is_neg   == i0.isnum /\ i0.n < 0
        \* i[1:] drops the sign
        i        == IF is_neg THEN IntTok(0 - i0.n) ELSE i0
        static_expr  == <<Name(self.class_name, ""), i, NoneTok>>
        temp_expr    == <<i, NoneTok, NoneTok>>
        pointer_expr == <<i, pointer_dict(is_neg), NoneTok>>
        loc_expr     == <<loc_dict(mem_segm), i, pointer_dict(is_neg)>>
        const_expr   == <<i, NoneTok, NoneTok>>
    IN  CASE mem_segm = "static"   -> static_expr
          [] mem_segm = "temp"     -> temp_expr
          [] mem_segm = "pointer"  -> pointer_expr
          [] mem_segm \in {"local", "argument", "this", "that"} -> loc_expr
          [] mem_segm = "constant" -> const_expr

_pop_push(self, raw_code, st) ==
    LET e == _pop_push_helper(self)
    IN  [st EXCEPT !.asm_code = Append(@, Code(raw_code, e[1], e[2], e[3]))]

_add_sub_or_and(self, raw_code, st) ==
    LET op_dict == [add |-> "+", sub |-> "-", or |-> "|", and |-> "&"]
    IN  [st EXCEPT !.asm_code =
            Append(@, Code(raw_code, Name(op_dict[self.cmd], ""), NoneTok, NoneTok))]

_neg_not(self, raw_code, st) ==
    LET op_dict == [neg |-> "-", not |-> "!"]
    IN  [st EXCEPT !.asm_code =
            Append(@, Code(raw_code, Name(op_dict[self.cmd], ""), NoneTok, NoneTok))]

\* self._cmd.upper()
upper(cmd) == [lt |-> "LT", eq |-> "EQ", gt |-> "GT"][cmd]

\* mutant of bump: one counter shared by the three operators
bump_shared(counter, cmd) == [k \in DOMAIN counter |-> counter[k] + 1]

\* line 198: the counter after this command
bump(counter, cmd) == [counter EXCEPT ![cmd] = @ + 1]

\* mutant of label_index: the counter is used after its increment
label_index_after_increment(counter, cmd) == counter[cmd]

\* line 203: the index written into the labels of this command
label_index(counter, cmd) == counter[cmd] - 1

_lt_eq_gt(self, raw_code, st) ==
    LET op_dict == [lt |-> "JGT", eq |-> "JEQ", gt |-> "JLT"]
        counter == bump(st.lt_eq_gt_counter, self.cmd)
    IN  [st EXCEPT !.lt_eq_gt_counter = counter,
                   !.asm_code = Append(@, Code(raw_code,
                                               Name(upper(self.cmd), ""),
                                               Name(op_dict[self.cmd], ""),
                                               IntTok(label_index(counter, self.cmd))))]

_label_goto_if_goto(self, raw_code, st) ==
    [st EXCEPT !.asm_code = Append(@, Code(raw_code, self.line.name, NoneTok, NoneTok))]

\* mutant of function_cmd_lst: one local too many
function_cmd_lst_one_more(self) ==
    <<Ctl("label", self.line.name)>>
    \o [k \in 1..(self.line.i.n + 1) |-> Mem("push", "constant", IntTok(0))]

\* _function, lines 223-232: the list of VM commands it translates
function_cmd_lst(self) ==
    LET i         == self.line.i.n
        func_name == self.line.name
    IN  <<Ctl("label", func_name)>> \o [k \in 1..i |-> Mem("push", "constant", IntTok(0))]

\* mutant of return_idx: the index of the line is not used
return_idx_of_default(self) == 0 + 1

\* line 249
return_idx(self) == self.idx + 1

\* _call, lines 247-274: the list of VM commands it translates
call_cmd_lst(self) ==
    LET func_name == self.line.name
        num_args  == self.line.i
        r         == return_idx(self)
    IN  <<Mem("push", "constant", RETURN_(r))>>
        \o [k \in 1..4 |-> Mem("push", "pointer", IntTok(k - 3))]
        \o <<Mem("push", "pointer", IntTok(-3)),
             Mem("push", "constant", IntTok(5)),
             Op("sub"),
             Mem("push", "constant", num_args),
             Op("sub"),
             Mem("pop", "pointer", IntTok(-1))>>
        \o <<Mem("push", "pointer", IntTok(-3)),
             Mem("pop", "pointer", IntTok(-2))>>
        \o <<Ctl("goto", func_name)>>
        \o <<Ctl("label", RETURN_(r))>>

sp_addr == 14
ret_addr == 15

\* mutant of return_cmd_lst: argument[0] is written before the return address
\* is saved
return_cmd_lst_value_first ==
       <<Mem("pop", "argument", IntTok(0))>>
    \o <<Mem("push", "local", IntTok(-5)),
         Mem("pop", "pointer", IntTok(ret_addr - 3))>>
    \o <<Mem("push", "pointer", IntTok(-1)),
         Mem("push", "constant", IntTok(1)),
         Op("add"),
         Mem("pop", "pointer", IntTok(sp_addr - 3))>>
    \o <<Mem("push", "local", IntTok(-1)),
         Mem("pop", "pointer", IntTok(1))>>
    \o <<Mem("push", "local", IntTok(-2)),
         Mem("pop", "pointer", IntTok(0))>>
    \o <<Mem("push", "local", IntTok(-3)),
         Mem("pop", "pointer", IntTok(-1))>>
    \o <<Mem("push", "local", IntTok(-4)),
         Mem("pop", "pointer", IntTok(-2))>>
    \o <<Mem("push", "pointer", IntTok(sp_addr - 3)),
         Mem("pop", "pointer", IntTok(-3))>>

\* mutant of return_cmd_lst: local is restored before argument
return_cmd_lst_local_first ==
       <<Mem("push", "local", IntTok(-5)),
         Mem("pop", "pointer", IntTok(ret_addr - 3))>>
    \o <<Mem("pop", "argument", IntTok(0))>>
    \o <<Mem("push", "pointer", IntTok(-1)),
         Mem("push", "constant", IntTok(1)),
         Op("add"),
         Mem("pop", "pointer", IntTok(sp_addr - 3))>>
    \o <<Mem("push", "local", IntTok(-1)),
         Mem("pop", "pointer", IntTok(1))>>
    \o <<Mem("push", "local", IntTok(-2)),
         Mem("pop", "pointer", IntTok(0))>>
    \o <<Mem("push", "local", IntTok(-4)),
         Mem("pop", "pointer", IntTok(-2))>>
    \o <<Mem("push", "local", IntTok(-3)),
         Mem("pop", "pointer", IntTok(-1))>>
    \o <<Mem("push", "pointer", IntTok(sp_addr - 3)),
         Mem("pop", "pointer", IntTok(-3))>>

\* _return, lines 291-331: the list of VM commands it translates
return_cmd_lst ==
       <<Mem("push", "local", IntTok(-5)),
         Mem("pop", "pointer", IntTok(ret_addr - 3))>>
    \o <<Mem("pop", "argument", IntTok(0))>>
    \o <<Mem("push", "pointer", IntTok(-1)),
         Mem("push", "constant", IntTok(1)),
         Op("add"),
         Mem("pop", "pointer", IntTok(sp_addr - 3))>>
    \o <<Mem("push", "local", IntTok(-1)),
         Mem("pop", "pointer", IntTok(1))>>
    \o <<Mem("push", "local", IntTok(-2)),
         Mem("pop", "pointer", IntTok(0))>>
    \o <<Mem("push", "local", IntTok(-3)),
         Mem("pop", "pointer", IntTok(-1))>>
    \o <<Mem("push", "local", IntTok(-4)),
         Mem("pop", "pointer", IntTok(-2))>>
    \o <<Mem("push", "pointer", IntTok(sp_addr - 3)),
         Mem("pop", "pointer", IntTok(-3))>>

RECURSIVE translate(_, _)

\* for line in cmd_lst: Translator(line_lst=line).translate()
RECURSIVE translate_lst(_, _)
translate_lst(cmd_lst, st) ==
    IF cmd_lst = <<>> \/ st.error # ""
    THEN st
    ELSE translate_lst(Tail(cmd_lst), translate(Translator(Head(cmd_lst), "", 0), st))

_function(self, raw_code, st) == translate_lst(function_cmd_lst(self), st)

_call(self, raw_code, st) == translate_lst(call_cmd_lst(self), st)

_return(self, raw_code, st) ==
    LET s1 == translate_lst(return_cmd_lst, st)
    IN  IF s1.error # ""
        THEN s1
        ELSE [s1 EXCEPT !.asm_code =
                 Append(@, Code(raw_code, IntTok(ret_addr), NoneTok, NoneTok))]

\* Translator._func_mappings[self._cmd], applied
op_func(self, raw_code, st) ==
    CASE self.cmd \in {"pop", "push"}              -> _pop_push(self, raw_code, st)
      [] self.cmd \in {"label", "goto", "if-goto"} -> _label_goto_if_goto(self, raw_code, st)
      [] self.cmd \in {"add", "sub", "or", "and"}  -> _add_sub_or_and(self, raw_code, st)
      [] self.cmd \in {"neg", "not"}               -> _neg_not(self, raw_code, st)
      [] self.cmd \in {"lt", "eq", "gt"}           -> _lt_eq_gt(self, raw_code, st)
      [] self.cmd = "function"                     -> _function(self, raw_code, st)
      [] self.cmd = "call"                         -> _call(self, raw_code, st)
      [] self.cmd = "return"                       -> _return(self, raw_code, st)

translate(self, st) ==
    LET s1 == IF self.cmd # "label" THEN _make_comm(self, st) ELSE st
        pn == pattern_name(self)
    IN  IF pn \notin PatternNames
        THEN [s1 EXCEPT !.error = "KeyError"]
        ELSE op_func(self, pn, s1)

---------------------------------------------------------------------------
(* vm_parser and main *)

\* vm_parser, lines 387-389
vm_has_init(lines) ==
    \E k \in 1..Len(lines) :
        lines[k].cmd = "function" /\ lines[k].name = Name("Sys", "init")

\* line[1].split('.')[0]
class_of(line) == line.name.pre

\* lines 413-417
main_init ==
    /\ pc = "main"
    /\ IF has_init
       THEN /\ parsed_vm' = <<Ctl("goto", Name("Sys", "init"))>> \o parsed_vm
            /\ curr_class' = "Sys"
       ELSE /\ parsed_vm' = parsed_vm
            /\ curr_class' = ""
    /\ pc' = "loop"
    /\ UNCHANGED <<has_init, idx, asm_code, lt_eq_gt_counter, error, ram, boot_ram, ip>>

\* lines 419-423: one iteration of the loop
main_loop ==
    /\ pc = "loop"
    /\ idx < Len(parsed_vm)
    /\ LET line == parsed_vm[idx + 1]
           cc   == IF line.cmd = "function" THEN class_of(line) ELSE curr_class
           st   == translate(Translator(line, cc, idx),
                             Shared(asm_code, lt_eq_gt_counter, error))
       IN  /\ curr_class' = cc
           /\ asm_code' = st.asm_code
           /\ lt_eq_gt_counter' = st.lt_eq_gt_counter
           /\ error' = st.error
           /\ pc' = IF st.error # "" THEN "failed" ELSE "loop"
    /\ idx' = idx + 1
    /\ UNCHANGED <<parsed_vm, has_init, ram, boot_ram, ip>>

\* lines 425-430: the loop is over, the output is read and written
main_write ==
    /\ pc = "loop"
    /\ idx = Len(parsed_vm)
    /\ pc' = "done"
    /\ UNCHANGED <<parsed_vm, has_init, curr_class, idx, asm_code, lt_eq_gt_counter,
                   error, ram, boot_ram, ip>>

-------------------------------------------------------------------------------------------------------------------------------------------------
(* The target machine, at the granularity of one filled-in pattern.  The   *)
(* pattern files are not part of the translator's source; what each one    *)
(* does is taken from the specification's addressing table and from the    *)
(* comments of _call and _return.                                          *)

\* RAM[0] is the stack pointer
SP == 0

\* 'pointer 0' is THIS: _return writes R<ret_addr> as 'pointer <ret_addr - 3>'
pointer_base == 3

\* the position of a declared label in the output
LabelAddr(code, tok) ==
    CHOOSE k \in 1..Len(code) :
        /\ code[k].pat = "_label" /\ code[k].var_1 = tok
        /\ \A j \in 1..(k - 1) : ~(code[j].pat = "_label" /\ code[j].var_1 = tok)

\* the value '@<tok>' loads: a literal, or the address of a label
Value(code, tok) == IF tok.isnum THEN tok.n ELSE LabelAddr(code, tok)

\* <a> <sign> <b>
Signed(a, sign, b) == IF sign = Name("-", "") THEN a - b ELSE a + b

\* push v: RAM[SP] = v, SP++
Push(m, v) == [m EXCEPT ![m[SP]] = v, ![SP] = m[SP] + 1]

\* pop to address a: SP--, RAM[a] = RAM[SP]
Pop(m, a) == [[m EXCEPT ![SP] = m[SP] - 1] EXCEPT ![a] = m[m[SP] - 1]]

\* the address a pattern reads or writes
Address(m, c) ==
    CASE c.pat \in {"_push pointer", "_pop pointer"} ->
            Signed(pointer_base, c.var_2, c.var_1.n)
      [] c.pat \in {"_push loc", "_pop loc"} ->
            Signed(m[c.var_1.n], c.var_3, c.var_2.n)

\* the memory after the pattern c
Exec(code, m, c) ==
    CASE c.pat = "_push constant" -> Push(m, Value(code, c.var_1))
      [] c.pat \in {"_push pointer", "_push loc"} -> Push(m, m[Address(m, c)])
      [] c.pat \in {"_pop pointer", "_pop loc"} -> Pop(m, Address(m, c))
      [] c.pat = "_add_sub_or_and" ->
            LET y == m[m[SP] - 1]
                x == m[m[SP] - 2]
            IN  [m EXCEPT ![m[SP] - 2] = Signed(x, c.var_1, y), ![SP] = m[SP] - 1]
      [] OTHER -> m

\* the position after the pattern c at position p
Jump(code, m, c, p) ==
    CASE c.pat = "_goto"   -> LabelAddr(code, c.var_1)
      [] c.pat = "_return" -> m[c.var_1.n]
      [] OTHER             -> p + 1

Runnable ==
    {"//", "_push constant", "_push pointer", "_push loc", "_pop pointer", "_pop loc",
     "_add_sub_or_and", "_label", "_goto", "_return"}

\* the machine runs one pattern of the written output; it is stopped at the
\* indirect jump that ends a return
cpu_step ==
    /\ pc = "done"
    /\ ip \in 1..Len(asm_code)
    /\ asm_code[ip].pat \in Runnable
    /\ LET c == asm_code[ip]
       IN  /\ ram' = Exec(asm_code, ram, c)
           /\ ip' = Jump(asm_code, ram, c, ip)
           /\ pc' = IF c.pat = "_return" THEN "halt" ELSE "done"
    /\ UNCHANGED <<parsed_vm, has_init, curr_class, idx, asm_code, lt_eq_gt_counter,
                   error, boot_ram>>

---------------------------------------------------------------------------
(* Inputs *)

MaxProg == 3
MaxLocals == 2
MaxCmpProg == 5
MaxSegProg == 2
MaxArgs == 2
StackBase == 16

\* all lists of at most n lines over an alphabet
Programs(alphabet, n) == UNION {[1..k -> alphabet] : k \in 0..n}

FunctionLines ==
    {Proc("function", Name("Sys", "init"), IntTok(0))}
    \cup {Proc("function", Name("Foo", "bar"), IntTok(k)) : k \in 0..MaxLocals}

Lines ==
    {Op("add"), Op("eq"), Op("gt"), Op("lt"),
     Mem("push", "constant", IntTok(0)),
     Mem("pop", "constant", IntTok(0)),
     Ctl("label", Name("L", "")),
     Proc("call", Name("Foo", "bar"), IntTok(2)),
     Op("return")} \cup FunctionLines

CmpLines == {Op("eq"), Op("gt"), Op("lt")}

Segments == {"constant", "static", "temp", "pointer", "local", "argument", "this", "that"}

Offsets == {-1, 1, 12}

SegLines ==
    {Mem(c, s, IntTok(k)) : c \in {"push", "pop"}, s \in Segments, k \in Offsets}
    \cup {Proc("function", Name("Sys", "init"), IntTok(0)),
          Proc("function", Name("Foo", "bar"), IntTok(0)),
          Proc("call", Name("Foo", "bar"), IntTok(0)),
          Op("return")}

\* n arguments are pushed, Foo.bar is called; Foo.bar has no locals, pushes
\* one value and returns
CallProgram(n, v) ==
    [k \in 1..n |-> Mem("push", "constant", IntTok(k))]
    \o <<Proc("call", Name("Foo", "bar"), IntTok(n)),
         Proc("function", Name("Foo", "bar"), IntTok(0)),
         Mem("push", "constant", IntTok(v)),
         Op("return")>>

CallPrograms == {CallProgram(n, v) : n \in 0..MaxArgs, v \in {7, 9}}

RamTop == StackBase + MaxArgs + 8

\* the memories the caller may be in: one word on the stack, any base pointers
BootRams ==
    {[a \in 0..RamTop |->
        CASE a = SP -> StackBase + 1
          [] a = 1 -> lcl
          [] a = 2 -> arg
          [] a = 3 -> this
          [] a = 4 -> that
          [] a = StackBase -> w
          [] OTHER -> 0] :
     lcl \in {20, 21}, arg \in {22, 23}, this \in {24, 25}, that \in {24, 26}, w \in {3, 4}}

\* the state of main after vm_parser returned
Start(programs, rams) ==
    /\ parsed_vm \in programs
    /\ has_init = vm_has_init(parsed_vm)
    /\ curr_class = ""
    /\ idx = 0
    /\ asm_code = <<>>
    /\ lt_eq_gt_counter = [lt |-> 0, eq |-> 0, gt |-> 0]
    /\ error = ""
    /\ pc = "main"
    /\ boot_ram \in rams
    /\ ram = boot_ram
    /\ ip = 1

Translation == main_init \/ main_loop \/ main_write

\* any program
Init == Start(Programs(Lines, MaxProg), {<<>>})
Next == Translation
Spec == Init /\ [][Next]_vars

\* programs of comparisons
InitCmp == Start(Programs(CmpLines, MaxCmpProg), {<<>>})
SpecCmp == InitCmp /\ [][Next]_vars

\* programs of memory accesses
InitSeg == Start(Programs(SegLines, MaxSegProg), {<<>>})
SpecSeg == InitSeg /\ [][Next]_vars

\* a call and its return, translated and then run
InitExec == Start(CallPrograms, BootRams)
NextExec == Translation \/ cpu_step
SpecExec == InitExec /\ [][NextExec]_vars

---------------------------------------------------------------------------
(* Helpers of the properties *)

\* the main loop translates the line at position idx + 1
Step == pc = "loop" /\ idx < Len(parsed_vm) /\ idx' = idx + 1

\* ... and no exception ends the run
GoodStep == Step /\ error' = ""

IsCode(c) == c.pat # "//"

RECURSIVE Repeat(_, _)
Repeat(block, n) == IF n <= 0 THEN <<>> ELSE block \o Repeat(block, n - 1)

\* what translating the line adds to an empty output when it is a top-level
\* line of the current position
TopLevelBlock(line) ==
    translate(Translator(line, curr_class, idx),
              Shared(<<>>, lt_eq_gt_counter, "")).asm_code

\* what translating the line adds to an empty output when an expansion
\* synthesized it
SubBlock(line) ==
    translate(Translator(line, "", 0), Shared(<<>>, lt_eq_gt_counter, "")).asm_code

RECURSIVE SubBlocks(_)
SubBlocks(cmd_lst) ==
    IF cmd_lst = <<>> THEN <<>> ELSE SubBlock(Head(cmd_lst)) \o SubBlocks(Tail(cmd_lst))

\* the sub-instructions an expansion opcode synthesizes
Expansion(line, i) ==
    CASE line.cmd = "function" -> function_cmd_lst(Translator(line, "", i))
      [] line.cmd = "call"     -> call_cmd_lst(Translator(line, "", i))
      [] line.cmd = "return"   -> return_cmd_lst

Plus == Name("+", "")
Minus == Name("-", "")

---------------------------------------------------------------------------
(* C2 *)

IsReturnLabel(c) == c.pat = "_label" /\ c.var_1.pre = "RETURN_"

\* the RETURN_<n> labels declared in the output, in output order
ReturnLabels == SelectSeq(asm_code, IsReturnLabel)

\* the call lines translated so far
CallSites == {k \in 1..idx : parsed_vm[k].cmd = "call"}

\* C2: in a driver run, with or without the bootstrap jump, the output declares
\* exactly one RETURN_<n> label per call line translated, and the numbers are
\* strictly increasing in call-site order (so no two call sites share a label).
C2_ReturnLabelsUnique ==
    /\ Len(ReturnLabels) = Cardinality(CallSites)
    /\ \A a, b \in 1..Len(ReturnLabels) :
          a < b => ReturnLabels[a].var_1.n < ReturnLabels[b].var_1.n
    /\ \A a \in 1..Len(ReturnLabels) :
          \E k \in 1..Len(asm_code) :
             asm_code[k] = Code("_push constant", ReturnLabels[a].var_1, NoneTok, NoneTok)

\* two call sites translated after the bootstrap jump was prepended
C2_Witness == has_init /\ Len(ReturnLabels) >= 2 /\ error = ""

---------------------------------------------------------------------------
(* C3 *)

\* the label indices of the comparisons in the output, in output order
CmpIndices ==
    LET sel == SelectSeq(asm_code, LAMBDA c : c.pat = "_lt_eq_gt")
    IN  [k \in 1..Len(sel) |-> sel[k].var_3.n]

Interleaved == <<Op("eq"), Op("gt"), Op("eq"), Op("lt"), Op("eq")>>

InterleavedDone == parsed_vm = Interleaved /\ idx = Len(Interleaved)

\* C3 as stated: from a fresh context, eq, gt, eq, lt, eq get the label
\* indices 0, 0, 1, 0, 0.
C3_AsStated == InterleavedDone => CmpIndices = <<0, 0, 1, 0, 0>>

\* C3 as amended: from a fresh context, eq, gt, eq, lt, eq get the label
\* indices 0, 0, 1, 0, 2: the third eq is the operator's occurrence number 2.
C3_PerOperatorIndices == InterleavedDone => CmpIndices = <<0, 0, 1, 0, 2>>

C3_Witness == InterleavedDone /\ Len(CmpIndices) = Len(Interleaved)

---------------------------------------------------------------------------
(* C5 *)

PushConstant0 == Mem("push", "constant", IntTok(0))

FunctionStep == GoodStep /\ parsed_vm[idx + 1].cmd = "function"

\* the label declaration and the N blocks of 'function F N'
FunctionBody(line) ==
    <<Code("_label", line.name, NoneTok, NoneTok)>>
    \o Repeat(TopLevelBlock(PushConstant0), line.i.n)

\* C5 as stated: translating 'function F N' emits the declaration of label F,
\* then N blocks each identical to a top-level 'push constant 0' block, and
\* nothing else.
C5_AsStated ==
    [][FunctionStep => asm_code' = asm_code \o FunctionBody(parsed_vm[idx + 1])]_vars

\* C5 as amended: translating 'function F N' emits the comment line of the
\* function instruction itself, then the declaration of label F, then N blocks
\* each identical to a top-level 'push constant 0' block, and nothing else.
C5_FunctionExpansion ==
    [][FunctionStep =>
         asm_code' = asm_code \o <<Comment(parsed_vm[idx + 1])>>
                     \o FunctionBody(parsed_vm[idx + 1])]_vars

\* a function with two locals has been translated
C5_Witness ==
    /\ idx >= 1 /\ error = ""
    /\ parsed_vm[idx].cmd = "function" /\ parsed_vm[idx].i.n = 2
    /\ Len(asm_code) >= 6
    /\ asm_code[Len(asm_code)] = Code("_push constant", IntTok(0), NoneTok, NoneTok)

---------------------------------------------------------------------------
(* C6 *)

CountOf(op) == Cardinality({k \in 1..idx : parsed_vm[k].cmd = op})

\* the label indices of the comparisons 'op' in the output, in output order
IndicesOf(OP) ==
    LET sel == SelectSeq(asm_code, LAMBDA c : c.pat = "_lt_eq_gt" /\ c.var_1 = Name(OP, ""))
    IN  [k \in 1..Len(sel) |-> sel[k].var_3.n]

\* C6: after any sequence of translated instructions the counter of each of
\* eq, gt, lt is the number of instructions of that operator translated so
\* far, and the k-th occurrence (from 0) of an operator carries label index k;
\* so an operator's instruction adds 1 to its own counter only and every other
\* instruction leaves the three counters alone.
C6_CountersCountOccurrences ==
    /\ lt_eq_gt_counter.eq = CountOf("eq")
    /\ lt_eq_gt_counter.gt = CountOf("gt")
    /\ lt_eq_gt_counter.lt = CountOf("lt")
    /\ IndicesOf("EQ") = [k \in 1..CountOf("eq") |-> k - 1]
    /\ IndicesOf("GT") = [k \in 1..CountOf("gt") |-> k - 1]
    /\ IndicesOf("LT") = [k \in 1..CountOf("lt") |-> k - 1]

\* an eq, something that is no comparison, and an eq again
C6_Witness ==
    /\ idx >= 3
    /\ parsed_vm[idx].cmd = "eq" /\ parsed_vm[idx - 2].cmd = "eq"
    /\ parsed_vm[idx - 1].cmd \in {"call", "return", "function"}
    /\ lt_eq_gt_counter.eq = 2

---------------------------------------------------------------------------
(* C9 *)

OwnComment(line) == IF line.cmd = "label" THEN <<>> ELSE <<Comment(line)>>

\* the block of a line that is no expansion: its comment, then one pattern
PlainBlockAdded(line) ==
    /\ Len(asm_code') = Len(asm_code) + Len(OwnComment(line)) + 1
    /\ IsCode(asm_code'[Len(asm_code')])
    /\ asm_code' = asm_code \o OwnComment(line) \o <<asm_code'[Len(asm_code')]>>

\* the output of before the step is a prefix of the output after it
OnlyGrows ==
    /\ Len(asm_code') >= Len(asm_code)
    /\ SubSeq(asm_code', 1, Len(asm_code)) = asm_code

\* the indirect jump that the pattern of return holds
ReturnJump == <<Code("_return", IntTok(15), NoneTok, NoneTok)>>

\* C9 as stated: the output only grows at its end, and each top-level
\* instruction adds one block: its comment line (none for label) and its
\* generated instructions; for function, call and return that block is the
\* concatenation, in expansion order, of the blocks of the sub-instructions.
C9_AsStated ==
    [][/\ OnlyGrows
       /\ GoodStep =>
            LET line == parsed_vm[idx + 1]
            IN  IF line.cmd \in {"function", "call", "return"}
                THEN asm_code' = asm_code \o SubBlocks(Expansion(line, idx))
                ELSE PlainBlockAdded(line)]_vars

\* C9 as amended: as stated, except that the block of function, call and
\* return is the comment line of the instruction itself and then the
\* concatenation of the blocks of its sub-instructions, and that the block of
\* return ends with the indirect jump of the return pattern itself.
C9_BlocksInOrder ==
    [][/\ OnlyGrows
       /\ GoodStep =>
            LET line == parsed_vm[idx + 1]
            IN  IF line.cmd \in {"function", "call", "return"}
                THEN asm_code' = asm_code \o OwnComment(line)
                                 \o SubBlocks(Expansion(line, idx))
                                 \o (IF line.cmd = "return" THEN ReturnJump ELSE <<>>)
                ELSE PlainBlockAdded(line)]_vars

\* a return has been translated after a call
C9_Witness ==
    /\ idx >= 2 /\ error = ""
    /\ parsed_vm[idx].cmd = "return" /\ parsed_vm[idx - 1].cmd = "call"
    /\ asm_code[Len(asm_code)].pat = "_return"

---------------------------------------------------------------------------
(* C4, C8, C10: memory accesses given by the source *)

\* the main loop translates a push or pop on one of the segments
SourceAccess(segments) ==
    /\ Step
    /\ parsed_vm[idx + 1].cmd \in {"push", "pop"}
    /\ parsed_vm[idx + 1].seg \in segments

\* the patterns added by the step
AddedCode == SelectSeq(SubSeq(asm_code', Len(asm_code) + 1, Len(asm_code')), IsCode)

\* C4: a push or pop with a negative offset on local, argument, this or that,
\* given as a source line, is rejected (an exception ends the run) and no
\* assembly is generated for it.
C4_NegativeOffsetRejected ==
    [][(SourceAccess({"local", "argument", "this", "that"}) /\ parsed_vm[idx + 1].i.n < 0)
         => (error' # "" /\ AddedCode = <<>>)]_vars

\* the base of the temp segment in the pattern files
temp_base == 5

\* the pattern reads or writes one of the two scratch locations of return
AccessesScratch(c) ==
    \/ /\ c.pat \in {"_push pointer", "_pop pointer"}
       /\ Signed(pointer_base, c.var_2, c.var_1.n) \in {sp_addr, ret_addr}
    \/ /\ c.pat \in {"_push temp", "_pop temp"}
       /\ temp_base + c.var_1.n \in {sp_addr, ret_addr}

\* C8: no push or pop on temp or pointer given as a source line is translated
\* into an access of address 14 or 15, the scratch locations of return; a
\* source line whose index would reach them is rejected.
C8_ScratchUnreachable ==
    [][SourceAccess({"temp", "pointer"})
         => \A k \in 1..Len(AddedCode) : ~AccessesScratch(AddedCode[k])]_vars

\* the module of the line at position k of the translated list, as C10 has it:
\* the prefix of the name of the last function line at or before k, and
\* before every function line Sys when the program defines Sys.init, else ''
ModuleAt(k) ==
    LET fs == {j \in 1..k : parsed_vm[j].cmd = "function"}
        last == CHOOSE j \in fs : \A h \in fs : h <= j
    IN  IF fs # {} THEN parsed_vm[last].name.pre
        ELSE IF vm_has_init(parsed_vm) THEN "Sys" ELSE ""

\* the block of a static access resolved to the slot <module>.<i>
StaticBlock(line, module) ==
    <<Comment(line),
      Code("_" \o line.cmd \o " static", Name(module, ""), line.i, NoneTok)>>

\* the step translates an expansion opcode
ExpansionStep == GoodStep /\ parsed_vm[idx + 1].cmd \in {"function", "call", "return"}

\* what the step would add were the module name cls
BlockInModule(line, cls) ==
    translate(Translator(line, cls, idx), Shared(<<>>, lt_eq_gt_counter, "")).asm_code

\* the step leaves the module name alone and adds what it would add under
\* any other module name
ModuleUnused ==
    /\ parsed_vm[idx + 1].cmd # "function" => curr_class' = curr_class
    /\ \A cls \in {"", "Sys", "Foo", "Other"} :
          asm_code' = asm_code \o BlockInModule(parsed_vm[idx + 1], cls)

\* C10: every push or pop on static given as a source line is resolved to the
\* slot <module>.<i> of the module of its position; and what call and return
\* synthesize neither depends on the module name nor changes it.
C10_StaticModule ==
    [][/\ SourceAccess({"static"}) =>
            asm_code' = asm_code \o StaticBlock(parsed_vm[idx + 1], ModuleAt(idx + 1))
       /\ ExpansionStep => ModuleUnused]_vars

\* C10 for the indices a VM program may hold: the same, for i >= 0
C10_StaticModuleNonNegative ==
    [][/\ (SourceAccess({"static"}) /\ parsed_vm[idx + 1].i.n >= 0) =>
            asm_code' = asm_code \o StaticBlock(parsed_vm[idx + 1], ModuleAt(idx + 1))
       /\ ExpansionStep => ModuleUnused]_vars

---------------------------------------------------------------------------
(* C1, C7: a call and its return, run on the target machine *)

\* the position of the call line in the translated list, its argument count
\* and the value the callee returns
CallPos == CHOOSE k \in 1..Len(parsed_vm) : parsed_vm[k].cmd = "call"
NumArgs == parsed_vm[CallPos].i.n
ReturnValue == parsed_vm[Len(parsed_vm) - 1].i.n

\* the stack pointer before the arguments were pushed
SP0 == boot_ram[SP]

\* C1: for every argument count n of the bounded range, running the code of
\* n argument pushes, 'call Foo.bar n', 'function Foo.bar 0', a push of one
\* value and 'return' arrives at the return label of that call with local,
\* argument, this and that as before the call, the stack below the arguments
\* untouched, the return value in place of the first argument and the stack
\* pointer one above its value before the arguments were pushed.
C1_CallReturnRestoresFrame ==
    pc = "halt" =>
        /\ ip \in 1..Len(asm_code)
        /\ asm_code[ip] = Code("_label", RETURN_(CallPos), NoneTok, NoneTok)
        /\ \A r \in 1..4 : ram[r] = boot_ram[r]
        /\ ram[SP] = SP0 + 1
        /\ ram[SP0] = ReturnValue
        /\ \A a \in StackBase..(SP0 - 1) : ram[a] = boot_ram[a]

\* the return of a call without arguments has been run
C1_Witness == pc = "halt" /\ NumArgs = 0 /\ ram[SP] = SP0 + 1

\* the position of the comment line of return in the output
ReturnStart == CHOOSE k \in 1..Len(asm_code) : asm_code[k] = Comment(Op("return"))

\* the patterns of the block of return, in output order
ReturnCode == SelectSeq(SubSeq(asm_code, ReturnStart + 1, Len(asm_code)), IsCode)

L(k, sign) == Code("_push loc", IntTok(1), IntTok(k), sign)
PushPtr(k, sign) == Code("_push pointer", IntTok(k), sign, NoneTok)
PopPtr(k, sign) == Code("_pop pointer", IntTok(k), sign, NoneTok)

\* the steps of return as C7 orders them
ReturnSteps ==
    <<L(5, Minus), PopPtr(12, Plus),                   \* scratch 15 = *(local - 5)
      Code("_pop loc", IntTok(2), IntTok(0), Plus),    \* *argument = pop()
      PushPtr(1, Minus),                               \* scratch 14 = argument + 1
      Code("_push constant", IntTok(1), NoneTok, NoneTok),
      Code("_add_sub_or_and", Plus, NoneTok, NoneTok),
      PopPtr(11, Plus),
      L(1, Minus), PopPtr(1, Plus),                    \* that = *(local - 1)
      L(2, Minus), PopPtr(0, Plus),                    \* this = *(local - 2)
      L(3, Minus), PopPtr(1, Minus),                   \* argument = *(local - 3)
      L(4, Minus), PopPtr(2, Minus),                   \* local = *(local - 4)
      PushPtr(11, Plus), PopPtr(3, Minus),             \* SP = scratch 14
      Code("_return", IntTok(15), NoneTok, NoneTok)>>  \* jump through scratch 15

\* the machine is inside the block of return
InReturn == pc = "done" /\ ip \in (ReturnStart + 1)..Len(asm_code)

\* the callee's local: the stack pointer after the frame was pushed
CalleeLocal == SP0 + NumArgs + 5

\* C7: return emits its steps in the stated order, the indirect jump last;
\* when run, every read relative to local finds local still at the callee's
\* value, the return address is in its scratch location before argument[0]
\* is written, and the jump goes through scratch 15 with the stack pointer
\* taken from scratch 14.
C7_ReturnOrder ==
    /\ pc \in {"done", "halt"} =>
          /\ ReturnCode = ReturnSteps
          /\ asm_code[Len(asm_code)] = ReturnSteps[Len(ReturnSteps)]
    /\ (InReturn /\ asm_code[ip].pat = "_push loc") => ram[1] = CalleeLocal
    /\ (InReturn /\ asm_code[ip].pat = "_pop loc") =>
          /\ ram[ret_addr] \in 1..Len(asm_code)
          /\ asm_code[ram[ret_addr]] = Code("_label", RETURN_(CallPos), NoneTok, NoneTok)
    /\ pc = "halt" => (ip = ram[15] /\ ram[SP] = ram[14] /\ ram[14] = SP0 + 1)

\* the machine is about to write argument[0] of a call without arguments: the
\* slot is the one the return address was pushed into
C7_Witness ==
    /\ InReturn /\ asm_code[ip].pat = "_pop loc"
    /\ NumArgs = 0
    /\ ram[2] = ram[1] - 5

====
